---- MODULE Spec2Model ----
(***************************************************************************)
(* Model of dedupe_gemini: the incremental reconciler (deduplication.run), *)
(* its clustering engine (UnionFind, _resolve_batch_assignments) and the   *)
(* ETL loader (etl.extract) that feeds staging_identitas.                  *)
(*                                                                         *)
(* Strings (NOMOR_INDUK, CIF_NUMBER) are sequences of character codes, so  *)
(* that Python's min()/sorted() on str and SQL's ORDER BY on VARCHAR are   *)
(* the lexicographic order LexLess, and "CIF-" + id is a concatenation.    *)
(***************************************************************************)
EXTENDS Integers, Sequences, FiniteSets, TLC

\* ------------------------------------------------------------------ bounds

\* Number of source records (the first ids of IdPool) under Spec.
NumIds == 3

\* Number of source records under SpecCrash, SpecMerge and SpecBridge.
NumIdsCrash == 4
NumIdsMerge == 5
NumIdsBridge == 6

\* Number of record ids the clustering specification SpecUF draws from.
NumUFIds == 4

\* Largest --batch-size a modelled run or extract is started with.
MaxBatchSize == 2

\* Largest --limit a modelled run or extract is started with.
MaxLimit == 1

\* Largest --max-pairs-per-batch a modelled run is started with.
MaxPairsCap == 2

\* Number of candidate pairs (pairs the linker scores) in the modelled data,
\* under Spec and SpecCrash, and under SpecMerge.
MaxCandidatePairs == 3
MaxCandidatePairsMerge == 4

\* Number of candidate pairs under SpecBridge.
MaxCandidatePairsBridge == 5

\* Length of the edge list fed to UnionFind in the clustering specification.
MaxUFPairs == 3

\* Calls made on one UnionFind object.
MaxUFCalls == 5

\* Largest match weight, and largest match_weight_threshold, in absolute
\* value, under SpecPrefilter.
MaxWeight == 5

\* Length of the representative ids given to _stable_cluster_id under
\* SpecClusterId (the ids around the numeric limit are added to them).
MaxIdLen == 3

\* ----------------------------------------------------------------- strings

\* "1", "10", "2", "3", "4", "5", "6" as character codes.
IdPool ==
  << <<49>>, <<49, 48>>, <<50>>, <<51>>, <<52>>, <<53>>, <<54>> >>

IdsUpTo(n) == {IdPool[i] : i \in 1..n}

\* str.__lt__ / VARCHAR comparison: lexicographic by code point.
LexLess(s, t) ==
  \E k \in 1..Len(t) :
     /\ \A j \in 1..(k - 1) : j <= Len(s) /\ s[j] = t[j]
     /\ (k > Len(s) \/ s[k] < t[k])

\* min() over a non-empty set of str.
LexMin(S) == CHOOSE x \in S : \A y \in S : x = y \/ LexLess(x, y)

\* sorted() over a set of str / ORDER BY ... ASC.
RECURSIVE SortedSeq(_)
SortedSeq(S) ==
  IF S = {} THEN <<>>
  ELSE LET m == LexMin(S) IN <<m>> \o SortedSeq(S \ {m})

\* The first n elements of a sequence (SQL LIMIT n).
Take(seq, n) == SubSeq(seq, 1, IF n < Len(seq) THEN n ELSE Len(seq))

Range(seq) == {seq[i] : i \in 1..Len(seq)}

\* f"CIF-{x}"
CifPrefix == <<67, 73, 70, 45>>
MintCif(x) == CifPrefix \o x

\* --------------------------------------------------------------- UnionFind

EmptyUF == [parent |-> <<>>, rank |-> <<>>]

\* UnionFind.add
UFAdd(uf, x) ==
  IF x \in DOMAIN uf.parent THEN uf
  ELSE [parent |-> [k \in DOMAIN uf.parent \cup {x} |->
                      IF k = x THEN x ELSE uf.parent[k]],
        rank   |-> [k \in DOMAIN uf.rank \cup {x} |->
                      IF k = x THEN 0 ELSE uf.rank[k]]]

\* A find that also raises the rank of every node whose pointer it rewrites.
RECURSIVE UFFindBumpingRank(_, _)
UFFindBumpingRank(uf, x) ==
  LET u1 == UFAdd(uf, x) IN
  IF u1.parent[x] # x
  THEN LET r == UFFindBumpingRank(u1, u1.parent[x]) IN
       [uf   |-> [r.uf EXCEPT !.parent[x] = r.root,
                              !.rank[x] = r.uf.rank[x] + 1],
        root |-> r.root]
  ELSE [uf |-> u1, root |-> x]

\* UnionFind.find with path compression: the structure after the call and
\* the value returned.
RECURSIVE UFFind(_, _)
UFFind(uf, x) ==
  LET u1 == UFAdd(uf, x) IN
  IF u1.parent[x] # x
  THEN LET r == UFFind(u1, u1.parent[x]) IN
       [uf   |-> [r.uf EXCEPT !.parent[x] = r.root],
        root |-> r.root]
  ELSE [uf |-> u1, root |-> x]

\* A union that links only roots of unequal rank.
UFUnionUnequalRanksOnly(uf, a, b) ==
  LET fa == UFFind(uf, a)
      fb == UFFind(fa.uf, b)
      ra == fa.root
      rb == fb.root
      u  == fb.uf
  IN  IF ra = rb THEN u
      ELSE IF u.rank[ra] < u.rank[rb]
           THEN [u EXCEPT !.parent[ra] = rb]
      ELSE IF u.rank[ra] > u.rank[rb]
           THEN [u EXCEPT !.parent[rb] = ra]
      ELSE u

\* A union that never raises a rank.
UFUnionNoRankBump(uf, a, b) ==
  LET fa == UFFind(uf, a)
      fb == UFFind(fa.uf, b)
      ra == fa.root
      rb == fb.root
      u  == fb.uf
  IN  IF ra = rb THEN u
      ELSE IF u.rank[ra] < u.rank[rb]
           THEN [u EXCEPT !.parent[ra] = rb]
      ELSE [u EXCEPT !.parent[rb] = ra]

\* UnionFind.union by rank.
UFUnion(uf, a, b) ==
  LET fa == UFFind(uf, a)
      fb == UFFind(fa.uf, b)
      ra == fa.root
      rb == fb.root
      u  == fb.uf
  IN  IF ra = rb THEN u
      ELSE IF u.rank[ra] < u.rank[rb]
           THEN [u EXCEPT !.parent[ra] = rb]
      ELSE IF u.rank[ra] > u.rank[rb]
           THEN [u EXCEPT !.parent[rb] = ra]
      ELSE [u EXCEPT !.parent[rb] = ra, !.rank[ra] = u.rank[ra] + 1]

\* components[root] = {node}: an insert that forgets the nodes already there.
ComponentsInsertBug(components, root, node) ==
  [k \in DOMAIN components \cup {root} |-> IF k = root THEN {node}
                                           ELSE components[k]]

\* components.setdefault(root, set()).add(node)
ComponentsInsert(components, root, node) ==
  [k \in DOMAIN components \cup {root} |->
     IF k = root
     THEN (IF root \in DOMAIN components THEN components[root] ELSE {})
          \cup {node}
     ELSE components[k]]

\* ------------------------------------------------------ _stable_cluster_id

\* The characters int() reads as decimal digits: "0".."9".
DecimalChars == 48..57

\* The characters str.isdigit() accepts on the modelled alphabet: the
\* decimal digits and SUPERSCRIPT TWO (U+00B2), a digit that is not decimal.
DigitChars == DecimalChars \cup {178}

\* representative_id.isdigit()
IsDigit(s) == Len(s) > 0 /\ \A i \in 1..Len(s) : s[i] \in DigitChars

\* int(representative_id) raises ValueError: a character that is not a
\* decimal digit.
IntRaises(s) == \E i \in 1..Len(s) : s[i] \notin DecimalChars

\* int(representative_id)
RECURSIVE DigitsToInt(_)
DigitsToInt(s) ==
  IF Len(s) = 0 THEN 0
  ELSE 10 * DigitsToInt(SubSeq(s, 1, Len(s) - 1)) + (s[Len(s)] - 48)

\* The largest value returned unhashed (9_223_372_036_854_775_807 in the
\* source; the model's integers are 32 bits wide, its ids far smaller).
Int63Max == 2147483647

\* int(sha1(representative_id).hexdigest()[:15], 16): a fixed function of
\* the string (a positional checksum stands for the digest).
RECURSIVE HexPrefixValue(_)
HexPrefixValue(s) ==
  IF Len(s) = 0 THEN 7
  ELSE (31 * HexPrefixValue(SubSeq(s, 1, Len(s) - 1)) + s[Len(s)]) % 1048576

\* The decimal writing of n.
RECURSIVE DecimalDigits(_)
DecimalDigits(n) ==
  IF n < 10 THEN <<48 + n>>
  ELSE Append(DecimalDigits(n \div 10), 48 + (n % 10))

RECURSIVE StripZeros(_)
StripZeros(s) ==
  IF Len(s) > 1 /\ s[1] = 48 THEN StripZeros(Tail(s)) ELSE s

\* value <= 9_223_372_036_854_775_807, compared on the digits so that no
\* intermediate value leaves the model's integers.
FitsInt63(s) ==
  LET d == StripZeros(s)
      m == DecimalDigits(Int63Max)
  IN  \/ Len(d) < Len(m)
      \/ Len(d) = Len(m) /\ ~LexLess(m, d)

\* _stable_cluster_id raises instead of returning.
StableClusterIdRaises(representative_id) ==
  IsDigit(representative_id) /\ IntRaises(representative_id)

\* The value _stable_cluster_id returns when it returns.
StableClusterId(representative_id) ==
  IF IsDigit(representative_id) /\ FitsInt63(representative_id)
  THEN DigitsToInt(representative_id)
  ELSE HexPrefixValue(representative_id) % Int63Max

\* ----------------------------------------------- _resolve_batch_assignments

\* Rows of processed_clusters: [NOMOR_INDUK, CLUSTER_ID, CIF_NUMBER].
Row(id, cluster, cif) ==
  [NOMOR_INDUK |-> id, CLUSTER_ID |-> cluster, CIF_NUMBER |-> cif]

\* for nid in new_ids: uf.add(nid)   (set iteration: some order)
RECURSIVE UFAddAll(_, _)
UFAddAll(uf, S) ==
  IF S = {} THEN uf
  ELSE LET x == CHOOSE y \in S : TRUE IN UFAddAll(UFAdd(uf, x), S \ {x})

\* for l_id, r_id in pairs: uf.union(l_id, r_id)   (rows in some order)
RECURSIVE UFUnionAll(_, _)
UFUnionAll(uf, P) ==
  IF P = {} THEN uf
  ELSE LET e == CHOOSE y \in P : TRUE
       IN  UFUnionAll(UFUnion(uf, e[1], e[2]), P \ {e})

\* all_nodes seeded with every record id instead of the batch ids.
AllNodesOfSource(new_ids, pairs) ==
  IdsUpTo(NumIdsCrash) \cup {e[1] : e \in pairs} \cup {e[2] : e \in pairs}

\* all_nodes: the batch ids and both ends of every pair.
AllNodes(new_ids, pairs) ==
  new_ids \cup {e[1] : e \in pairs} \cup {e[2] : e \in pairs}

\* for node in all_nodes: components.setdefault(uf.find(node), set()).add(node)
RECURSIVE BuildComponents(_, _, _)
BuildComponents(uf, nodes, components) ==
  IF nodes = {} THEN components
  ELSE LET n == CHOOSE y \in nodes : TRUE
           f == UFFind(uf, n)
       IN  BuildComponents(f.uf, nodes \ {n},
                           ComponentsInsert(components, f.root, n))

\* components.values() for a batch and its edge table.
BatchComponents(new_ids, pairs) ==
  LET uf == UFUnionAll(UFAddAll(EmptyUF, new_ids), pairs)
      c  == BuildComponents(uf, AllNodes(new_ids, pairs), <<>>)
  IN  {c[r] : r \in DOMAIN c}

\* existing_cif_by_id: the CIF of every node that has a processed_clusters
\* row with a CIF (INNER JOIN, dropna, dict(zip(...))).
ExistingCifById(pclusters, nodes) ==
  LET have == {n \in nodes : \E r \in pclusters :
                 r.NOMOR_INDUK = n /\ r.CIF_NUMBER # <<>>}
  IN  [n \in have |-> (CHOOSE r \in pclusters :
                         r.NOMOR_INDUK = n /\ r.CIF_NUMBER # <<>>).CIF_NUMBER]

\* existing_cifs of one component, as a set (sorted() is applied by its uses).
ExistingCifs(nodes, existing) ==
  {existing[n] : n \in nodes \cap DOMAIN existing}

\* A canonical CIF minted from the smallest id compared as a number.
CanonicalCifNumeric(nodes, existing) ==
  LET cifs == ExistingCifs(nodes, existing)
      rep  == CHOOSE x \in nodes :
                \A y \in nodes : DigitsToInt(x) <= DigitsToInt(y)
  IN  IF cifs # {} THEN LexMin(cifs) ELSE MintCif(rep)

\* canonical_cif: existing_cifs[0], or the CIF minted from min(nodes).
CanonicalCif(nodes, existing) ==
  LET cifs == ExistingCifs(nodes, existing)
  IN  IF cifs # {} THEN LexMin(cifs) ELSE MintCif(LexMin(nodes))

\* merge_rows of one component: (old_cif, canonical_cif) for existing_cifs[1:].
MergeRowsOf(nodes, existing) ==
  LET cifs == ExistingCifs(nodes, existing)
  IN  IF Cardinality(cifs) > 1
      THEN {<<old, LexMin(cifs)>> : old \in cifs \ {LexMin(cifs)}}
      ELSE {}

\* Assignment rows whose cluster id comes from the smallest batch record of
\* the component.
AssignmentRowsOfBatchMin(nodes, new_ids, existing) ==
  {Row(nid, StableClusterId(LexMin(nodes \cap new_ids)),
       CanonicalCif(nodes, existing)) :
     nid \in nodes \cap new_ids}

\* assignment_rows of one component.
AssignmentRowsOf(nodes, new_ids, existing) ==
  {Row(nid, StableClusterId(LexMin(nodes)), CanonicalCif(nodes, existing)) :
     nid \in nodes \cap new_ids}

\* The components that are resolved: those with a batch record.
ResolvedComponents(comps, new_ids) == {c \in comps : c \cap new_ids # {}}

\* assignments_df
Assignments(comps, new_ids, existing) ==
  UNION {AssignmentRowsOf(c, new_ids, existing) :
           c \in ResolvedComponents(comps, new_ids)}

\* merges_df: OLD_CIF != NEW_CIF, drop_duplicates().
Merges(comps, new_ids, existing) ==
  {m \in UNION {MergeRowsOf(c, existing) :
                  c \in ResolvedComponents(comps, new_ids)} : m[1] # m[2]}

\* ------------------------------------------------------------------- state

VARIABLES
  \* MariaDB table identitas: the NOMOR_INDUK of the source records.
  identitas,
  \* The linker's match probability of every pair of records, as a level:
  \* 0 = the pair is no candidate (not blocked together or under the match
  \* weight prefilter), 1 and 2 = scored, with probability level 1 < 2.
  match_probability,
  \* DuckDB: whether staging_identitas exists, and PROCESSED_AT IS NOT NULL
  \* for each of its rows (keyed by NOMOR_INDUK).
  staging_exists,
  staging_identitas,
  \* DuckDB table processed_clusters, a set of rows.
  processed_clusters,
  \* data/etl_state.json: last_processed_id ("0" when the file is absent).
  last_processed_id,
  \* etl.extract: position and locals.
  etl_pc, etl_last_id, etl_start_id, etl_total, etl_limit, etl_batch_size,
  \* deduplication.run: position, options and locals.
  pc, threshold, batch_size, limit, max_pairs_per_batch, total_processed,
  new_records_df, batch_pairs, assignments_df, merges_df,
  \* How the last run ended; "none" once an extract staged a record that was
  \* not staged before.
  run_result,
  \* History of the current batch: what it started from and what it resolved;
  \* and, after a run the safety cap aborted, by how much the cap was exceeded.
  hist,
  \* The clustering steps of _resolve_batch_assignments taken one at a time:
  \* the UnionFind, new_ids and those not yet added, the number of pairs fed,
  \* all_nodes and those not yet visited, the components dict, the position.
  uf, uf_new_ids, uf_pending, uf_npairs, uf_all_nodes, uf_todo,
  uf_components, uf_pc,
  \* A UnionFind called directly: the pairs passed to union so far, the last
  \* call (method, arguments, value returned), the number of calls.
  ufc_edges, ufc_last, ufc_ncalls,
  \* The scoring of one pair taken alone: its match weight, the run's
  \* threshold (in percent) and match_weight_threshold, whether the pair
  \* became a row of batch_pairs, the position.
  pf_weight, pf_threshold, pf_mwt, pf_kept, pf_pc,
  \* train: the position, the index of the next EM rule, the EM calls made
  \* so far with their outcome, the rules whose parameters the linker holds,
  \* the model file, how the last train ended.
  train_pc, train_rule, train_attempts, train_params, model_file, train_result,
  \* One call of _stable_cluster_id: its argument, its outcome, the position.
  sid_input, sid_result, sid_pc

db_vars  == <<identitas, match_probability, staging_exists, staging_identitas,
              processed_clusters, last_processed_id>>
etl_vars == <<etl_pc, etl_last_id, etl_start_id, etl_total, etl_limit,
              etl_batch_size>>
opt_vars == <<threshold, batch_size, limit, max_pairs_per_batch>>
loc_vars == <<new_records_df, batch_pairs, assignments_df, merges_df>>
run_vars == <<pc, opt_vars, total_processed, loc_vars, run_result>>
main_vars == <<db_vars, etl_vars, run_vars, hist>>
ufc_vars == <<ufc_edges, ufc_last, ufc_ncalls>>
uf_vars  == <<uf, uf_new_ids, uf_pending, uf_npairs, uf_all_nodes, uf_todo,
              uf_components, uf_pc, ufc_vars>>
pf_vars  == <<pf_weight, pf_threshold, pf_mwt, pf_kept, pf_pc>>
train_vars == <<train_pc, train_rule, train_attempts, train_params,
                model_file, train_result>>
sid_vars == <<sid_input, sid_result, sid_pc>>
fn_vars  == <<pf_vars, train_vars, sid_vars>>
vars     == <<main_vars, uf_vars, fn_vars>>

\* limit: Optional[int] = None; `if limit` treats 0 like None, and run's
\* --limit has min=1, so 0 stands for "no limit" in both commands.
NoLimit == 0

\* "0": the start id of a fresh extract.
Zero == <<48>>

\* The record ids of the modelled world: the source table does not change.
Ids == identitas

Pairs == {{a, b} : a, b \in Ids} \ {{a} : a \in Ids}

Staged == DOMAIN staging_identitas

\* WHERE PROCESSED_AT IS NULL
Unprocessed == {id \in Staged : ~staging_identitas[id]}
Processed   == {id \in Staged : staging_identitas[id]}

NoHist == [before_clusters |-> {}, before_processed |-> {},
           components |-> {}, existing |-> <<>>, excess |-> 0]

\* --------------------------------------------------------------------- SQL

\* The same SELECT without its WHERE clause.
SelectBatchUnfiltered(staging, n) == Take(SortedSeq(DOMAIN staging), n)

\* The same SELECT with ORDER BY NOMOR_INDUK DESC.
SelectBatchDescending(staging, n) ==
  LET s == SortedSeq({id \in DOMAIN staging : ~staging[id]})
  IN  Take([i \in 1..Len(s) |-> s[Len(s) + 1 - i]], n)

\* SELECT * FROM staging_identitas WHERE PROCESSED_AT IS NULL
\* ORDER BY NOMOR_INDUK LIMIT n
SelectBatch(staging, n) ==
  Take(SortedSeq({id \in DOMAIN staging : ~staging[id]}), n)

\* linker.inference.find_matches_to_new_records: the staged records on the
\* left, the batch on the right, one row per scored pair (a record of the
\* batch is also a staged record, and pairs with itself).
PairwisePredictions(new_ids, staged, mp) ==
  {<<l, r, IF l = r THEN 2 ELSE mp[{l, r}]>> : l \in staged, r \in new_ids}
    \ {<<l, r, 0>> : l \in staged, r \in new_ids}

\* The same table with match_probability > threshold.
BatchPairsStrict(raw, new_ids, thr) ==
  {<<IF e[1] \in new_ids THEN e[1] ELSE e[2],
     IF e[1] \in new_ids THEN e[2] ELSE e[1],
     e[3]>> :
     e \in {x \in raw : /\ x[1] # x[2]
                        /\ x[3] > thr
                        /\ (x[1] \in new_ids \/ x[2] \in new_ids)}}

\* CREATE OR REPLACE TEMP TABLE batch_pairs: rows (new_id, candidate_id, p).
BatchPairs(raw, new_ids, thr) ==
  {<<IF e[1] \in new_ids THEN e[1] ELSE e[2],
     IF e[1] \in new_ids THEN e[2] ELSE e[1],
     e[3]>> :
     e \in {x \in raw : /\ x[1] # x[2]
                        /\ x[3] >= thr
                        /\ (x[1] \in new_ids \/ x[2] \in new_ids)}}

\* SELECT new_id, candidate_id FROM batch_pairs
PairsOf(bp) == {<<e[1], e[2]>> : e \in bp}

\* UPDATE processed_clusters SET CIF_NUMBER = m.NEW_CIF FROM cif_merges_df m
\* WHERE CIF_NUMBER = m.OLD_CIF.  When an old CIF has several rows in m, the
\* statement uses one of them; which one is not defined.
MergeChoices(merges) ==
  {g \in [{m[1] : m \in merges} -> {m[2] : m \in merges}] :
     \A o \in DOMAIN g : <<o, g[o]>> \in merges}

\* The same UPDATE with SET CLUSTER_ID = 0 added.
ApplyMergesClearingCluster(pclusters, g) ==
  {IF r.CIF_NUMBER \in DOMAIN g
   THEN [r EXCEPT !.CIF_NUMBER = g[r.CIF_NUMBER], !.CLUSTER_ID = 0]
   ELSE r : r \in pclusters}

ApplyMerges(pclusters, g) ==
  {IF r.CIF_NUMBER \in DOMAIN g
   THEN [r EXCEPT !.CIF_NUMBER = g[r.CIF_NUMBER]] ELSE r : r \in pclusters}

\* A plain INSERT into a table without a primary key.
InsertOnly(pclusters, rows) == pclusters \cup rows

\* INSERT OR REPLACE INTO processed_clusters SELECT ... FROM batch_assignments_df
InsertOrReplace(pclusters, rows) ==
  {r \in pclusters : \A a \in rows : a.NOMOR_INDUK # r.NOMOR_INDUK} \cup rows

\* An UPDATE that matches no row.
MarkNothing(staging, ids) == staging

\* UPDATE staging_identitas SET PROCESSED_AT = NOW() WHERE NOMOR_INDUK IN (...)
MarkProcessed(staging, ids) ==
  [id \in DOMAIN staging |-> staging[id] \/ id \in ids]

\* INSERT OR REPLACE INTO staging_identitas VALUES (..., None)
StagingInsertOrReplace(staging, ids) ==
  [id \in DOMAIN staging \cup ids |->
     IF id \in ids THEN FALSE ELSE staging[id]]

\* ------------------------------------------------------------ etl.extract

SmallestOf(S) == LexMin(S)

LexMax(S) == CHOOSE x \in S : \A y \in S : x = y \/ LexLess(y, x)

\* SELECT ... FROM identitas WHERE NOMOR_INDUK > :last_id
\* ORDER BY NOMOR_INDUK ASC LIMIT :limit
FetchRows(source, last_id, n) ==
  Take(SortedSeq({id \in source : LexLess(last_id, id)}), n)

\* extract(...) up to the loop: the staging table is created, the start id is
\* the saved cursor (resume) or "0".
ExtractStart(bs, resume, lim) ==
  /\ pc = "idle" /\ etl_pc = "idle" /\ train_pc = "idle"
  /\ staging_exists' = TRUE
  /\ etl_start_id' = (IF resume THEN last_processed_id ELSE Zero)
  /\ etl_last_id' = (IF resume THEN last_processed_id ELSE Zero)
  /\ etl_total' = 0
  /\ etl_limit' = lim
  /\ etl_batch_size' = bs
  /\ etl_pc' = "loop"
  /\ UNCHANGED <<identitas, match_probability, staging_identitas,
                 processed_clusters, last_processed_id, run_vars, hist>>
  /\ UNCHANGED <<uf_vars, fn_vars>>

EtlLimitReached == etl_limit # NoLimit /\ etl_total >= etl_limit

EtlIdle ==
  /\ etl_pc' = "idle"
  /\ etl_last_id' = Zero /\ etl_start_id' = Zero /\ etl_total' = 0
  /\ etl_limit' = NoLimit /\ etl_batch_size' = 1

\* One iteration of the while loop whose INSERT succeeds, or that breaks
\* before it (limit reached, no rows).
ExtractBatch ==
  /\ etl_pc = "loop"
  /\ LET rows == FetchRows(identitas, etl_last_id, etl_batch_size)
         max_id_in_batch == LexMax(Range(rows) \cup {etl_start_id})
     IN  IF EtlLimitReached \/ rows = <<>>
         THEN /\ EtlIdle
              /\ UNCHANGED <<db_vars, hist, run_result>>
         ELSE /\ staging_identitas' =
                   StagingInsertOrReplace(staging_identitas, Range(rows))
              /\ last_processed_id' = max_id_in_batch
              /\ run_result' = (IF Range(rows) \subseteq Staged
                                THEN run_result ELSE "none")
              /\ IF Len(rows) < etl_batch_size
                 THEN EtlIdle
                 ELSE /\ etl_last_id' = max_id_in_batch
                      /\ etl_total' = etl_total + Len(rows)
                      /\ UNCHANGED <<etl_pc, etl_start_id, etl_limit,
                                     etl_batch_size>>
              /\ UNCHANGED <<identitas, match_probability, staging_exists,
                             processed_clusters, hist>>
  /\ UNCHANGED <<pc, opt_vars, total_processed, loc_vars>>
  /\ UNCHANGED <<uf_vars, fn_vars>>

\* The executemany raises after k of the batch's rows were written: the
\* cursor is not saved and the loop breaks.
ExtractInsertFail ==
  /\ etl_pc = "loop"
  /\ ~EtlLimitReached
  /\ LET rows == FetchRows(identitas, etl_last_id, etl_batch_size)
     IN  /\ rows # <<>>
         /\ \E k \in 0..(Len(rows) - 1) :
              /\ staging_identitas' =
                   StagingInsertOrReplace(staging_identitas,
                                          Range(Take(rows, k)))
              /\ run_result' = (IF Range(Take(rows, k)) \subseteq Staged
                                THEN run_result ELSE "none")
  /\ EtlIdle
  /\ UNCHANGED <<identitas, match_probability, staging_exists,
                 processed_clusters, last_processed_id, hist,
                 pc, opt_vars, total_processed, loc_vars>>
  /\ UNCHANGED <<uf_vars, fn_vars>>

\* The SELECT on the source raises: "Database error", break.
ExtractFetchFail ==
  /\ etl_pc = "loop"
  /\ ~EtlLimitReached
  /\ EtlIdle
  /\ UNCHANGED <<db_vars, run_vars, hist>>
  /\ UNCHANGED <<uf_vars, fn_vars>>

\* ------------------------------------------------------ deduplication.run

NewIds == Range(new_records_df)

NoLocals ==
  /\ new_records_df' = <<>>
  /\ batch_pairs' = {}
  /\ assignments_df' = {}
  /\ merges_df' = {}

\* The run ends (break, return, raise): its connection and locals are gone.
EndRunWith(result, excess) ==
  /\ pc' = "idle"
  /\ run_result' = result
  /\ total_processed' = 0
  /\ threshold' = 1 /\ batch_size' = 1 /\ limit' = NoLimit
  /\ max_pairs_per_batch' = 1
  /\ NoLocals
  /\ hist' = [NoHist EXCEPT !.excess = excess]

\* A run that reports every end of the loop as a failure.
EndRunFailed(result) == EndRunWith("failed", 0)

\* return, or break and the end of run(...)
EndRun(result) == EndRunWith(result, 0)

\* A cap that also stops a batch whose pair count equals it.
ExceedsCapInclusive(pair_count, cap) == pair_count >= cap

\* if pair_count > max_pairs_per_batch
ExceedsCap(pair_count, cap) == pair_count > cap

\* run(...) up to the loop.
StartRun(thr, bs, lim, cap) ==
  /\ pc = "idle" /\ etl_pc = "idle" /\ train_pc = "idle"
  /\ pc' = "select"
  /\ threshold' = thr
  /\ batch_size' = bs
  /\ limit' = lim
  /\ max_pairs_per_batch' = cap
  /\ total_processed' = 0
  /\ NoLocals
  /\ hist' = NoHist
  /\ UNCHANGED <<db_vars, etl_vars, run_result>>
  /\ UNCHANGED <<uf_vars, fn_vars>>

\* A batch size that is not cut to what the limit leaves.
CurrentBatchSizeIgnoringLimit == batch_size

\* current_batch_size
CurrentBatchSize ==
  IF limit # NoLimit /\ limit - total_processed < batch_size
  THEN limit - total_processed ELSE batch_size

\* Top of the while loop: the limit check and the SELECT of the batch.
Select ==
  /\ pc = "select"
  /\ IF limit # NoLimit /\ total_processed >= limit
     THEN EndRun("limit")
     ELSE IF ~staging_exists
     THEN EndRun("no_table")
     ELSE LET df == SelectBatch(staging_identitas, CurrentBatchSize)
          IN  IF Len(df) = 0
              THEN EndRun("exhausted")
              ELSE /\ new_records_df' = df
                   /\ pc' = "score"
                   /\ hist' = [NoHist EXCEPT
                                 !.before_clusters = processed_clusters,
                                 !.before_processed = Processed]
                   /\ UNCHANGED <<opt_vars, total_processed, batch_pairs,
                                  assignments_df, merges_df, run_result>>
  /\ UNCHANGED <<db_vars, etl_vars>>
  /\ UNCHANGED <<uf_vars, fn_vars>>

\* A scoring step that marks the batch before it gives up on it.
ScoreMarkingAbortedBatch ==
  /\ pc = "score"
  /\ LET raw == PairwisePredictions(NewIds, Staged, match_probability)
         bp  == BatchPairs(raw, NewIds, threshold)
         pair_count == Cardinality(bp)
     IN  IF ExceedsCap(pair_count, max_pairs_per_batch)
         THEN /\ EndRunWith("aborted", pair_count - max_pairs_per_batch)
              /\ staging_identitas' = MarkProcessed(staging_identitas, NewIds)
              /\ UNCHANGED <<identitas, match_probability, staging_exists,
                             processed_clusters, last_processed_id>>
         ELSE /\ batch_pairs' = bp
              /\ pc' = "resolve"
              /\ UNCHANGED <<opt_vars, total_processed, new_records_df,
                             assignments_df, merges_df, run_result, hist>>
              /\ UNCHANGED db_vars
  /\ UNCHANGED etl_vars
  /\ UNCHANGED <<uf_vars, fn_vars>>

\* find_matches_to_new_records, CREATE TABLE batch_pairs, and the safety cap.
Score ==
  /\ pc = "score"
  /\ LET raw == PairwisePredictions(NewIds, Staged, match_probability)
         bp  == BatchPairs(raw, NewIds, threshold)
         pair_count == Cardinality(bp)
     IN  IF ExceedsCap(pair_count, max_pairs_per_batch)
         THEN EndRunWith("aborted", pair_count - max_pairs_per_batch)
         ELSE /\ batch_pairs' = bp
              /\ pc' = "resolve"
              /\ UNCHANGED <<opt_vars, total_processed, new_records_df,
                             assignments_df, merges_df, run_result, hist>>
  /\ UNCHANGED <<db_vars, etl_vars>>
  /\ UNCHANGED <<uf_vars, fn_vars>>

\* _resolve_batch_assignments(conn, new_records_df, "batch_pairs")
Resolve ==
  /\ pc = "resolve"
  /\ LET pairs    == PairsOf(batch_pairs)
         comps    == BatchComponents(NewIds, pairs)
         existing == ExistingCifById(processed_clusters,
                                     AllNodes(NewIds, pairs))
     IN  /\ assignments_df' = Assignments(comps, NewIds, existing)
         /\ merges_df' = Merges(comps, NewIds, existing)
         /\ hist' = [hist EXCEPT !.components = comps,
                                 !.existing = existing]
  /\ pc' = "merge"
  /\ UNCHANGED <<db_vars, etl_vars, opt_vars, total_processed,
                 new_records_df, batch_pairs, run_result>>
  /\ UNCHANGED <<uf_vars, fn_vars>>

\* A commit that inserts the assignments first and rewrites the old CIFs
\* afterwards, in one step.
MergeRewriteAfterUpsert ==
  /\ pc = "merge"
  /\ IF merges_df # {}
     THEN \E g \in MergeChoices(merges_df) :
            processed_clusters' =
              ApplyMerges(InsertOrReplace(processed_clusters, assignments_df), g)
     ELSE processed_clusters' =
            InsertOrReplace(processed_clusters, assignments_df)
  /\ pc' = "upsert"
  /\ UNCHANGED <<identitas, match_probability, staging_exists,
                 staging_identitas, last_processed_id, etl_vars, opt_vars,
                 total_processed, loc_vars, run_result, hist>>
  /\ UNCHANGED <<uf_vars, fn_vars>>

\* if not merges_df.empty: UPDATE processed_clusters ...
MergeRewrite ==
  /\ pc = "merge"
  /\ IF merges_df # {}
     THEN \E g \in MergeChoices(merges_df) :
            processed_clusters' = ApplyMerges(processed_clusters, g)
     ELSE UNCHANGED processed_clusters
  /\ pc' = "upsert"
  /\ UNCHANGED <<identitas, match_probability, staging_exists,
                 staging_identitas, last_processed_id, etl_vars, opt_vars,
                 total_processed, loc_vars, run_result, hist>>
  /\ UNCHANGED <<uf_vars, fn_vars>>

\* INSERT OR REPLACE INTO processed_clusters ... FROM batch_assignments_df
Upsert ==
  /\ pc = "upsert"
  /\ processed_clusters' = InsertOrReplace(processed_clusters, assignments_df)
  /\ pc' = "mark"
  /\ UNCHANGED <<identitas, match_probability, staging_exists,
                 staging_identitas, last_processed_id, etl_vars, opt_vars,
                 total_processed, loc_vars, run_result, hist>>
  /\ UNCHANGED <<uf_vars, fn_vars>>

\* UPDATE staging_identitas SET PROCESSED_AT = NOW() ...; total_processed +=
Mark ==
  /\ pc = "mark"
  /\ staging_identitas' = MarkProcessed(staging_identitas, NewIds)
  /\ total_processed' = total_processed + Len(new_records_df)
  /\ NoLocals
  /\ pc' = "select"
  /\ hist' = NoHist
  /\ UNCHANGED <<identitas, match_probability, staging_exists,
                 processed_clusters, last_processed_id, etl_vars, opt_vars,
                 run_result>>
  /\ UNCHANGED <<uf_vars, fn_vars>>

\* A statement of the loop raises (storage error, killed process): nothing
\* catches it, the statement has no effect, the statements before it stay.
RunFail ==
  /\ pc \in {"select", "score", "resolve", "merge", "upsert", "mark"}
  /\ EndRun("failed")
  /\ UNCHANGED <<db_vars, etl_vars>>
  /\ UNCHANGED <<uf_vars, fn_vars>>

\* ------------------------------------------------- the scoring of one pair

\* 2^n
RECURSIVE Pow2(_)
Pow2(n) == IF n = 0 THEN 1 ELSE 2 * Pow2(n - 1)

\* match_probability >= threshold, for a pair of match weight w and a
\* threshold of t percent: the probability is 2^w / (1 + 2^w).
ProbabilityAtLeast(w, t) ==
  IF w >= 0 THEN 100 * Pow2(w) >= t * (1 + Pow2(w))
  ELSE 100 >= t * (1 + Pow2(0 - w))

\* find_matches_to_new_records(..., match_weight_threshold=...): the linker
\* returns the pairs whose match weight reaches the prefilter.
PassesPrefilter(w, mwt) == w >= mwt

\* Whether a pair of a batch record and another record becomes a row of
\* batch_pairs.
KeptEdge(w, t, mwt) == PassesPrefilter(w, mwt) /\ ProbabilityAtLeast(w, t)

PfIdle ==
  /\ pf_weight = 0 /\ pf_threshold = 0 /\ pf_mwt = 0
  /\ pf_kept = FALSE /\ pf_pc = "off"


\* The pair is scored and filtered.
PfScore ==
  /\ pf_pc = "score"
  /\ pf_kept' = KeptEdge(pf_weight, pf_threshold, pf_mwt)
  /\ pf_pc' = "done"
  /\ UNCHANGED <<pf_weight, pf_threshold, pf_mwt>>
  /\ UNCHANGED <<main_vars, uf_vars, train_vars, sid_vars>>

\* -------------------------------------------------------------------- train

\* get_em_training_rules(): the block_on(...) rules, by their columns.
get_em_training_rules ==
  << <<"NIK">>,
     <<"CLEAN_NAMA", "TANGGAL_LAHIR">>,
     <<"CLEAN_NM_IBU", "TANGGAL_LAHIR">>,
     <<"CLEAN_NAMA", "ID_JENIS_KELAMIN", "CLEAN_NM_IBU">> >>

NoModel == [exists |-> FALSE, params |-> {}]

TrainIdle ==
  /\ train_pc = "idle" /\ train_rule = 0
  /\ train_attempts = <<>> /\ train_params = {}
  /\ model_file = NoModel
  /\ train_result = "none"

\* ------------------------------------------ one call of _stable_cluster_id

NoResult == [raised |-> FALSE, value |-> 0]

SidIdle == sid_input = <<>> /\ sid_result = NoResult /\ sid_pc = "off"

FnIdle == PfIdle /\ TrainIdle /\ SidIdle

\* cluster_id = _stable_cluster_id(representative_id)
StableClusterIdCall ==
  /\ sid_pc = "call"
  /\ sid_result' =
       IF StableClusterIdRaises(sid_input)
       THEN [raised |-> TRUE, value |-> 0]
       ELSE [raised |-> FALSE, value |-> StableClusterId(sid_input)]
  /\ sid_pc' = "done"
  /\ UNCHANGED sid_input
  /\ UNCHANGED <<main_vars, uf_vars, pf_vars, train_vars>>

\* An EM step whose failure also drops what the earlier rules estimated.
AfterEmDiscarding(params, rule, ok) ==
  IF ok THEN params \cup {rule} ELSE {}

\* try: estimate_parameters_using_expectation_maximisation(rule)
\* except Exception: logger.warning(...)
AfterEm(params, rule, ok) ==
  IF ok THEN params \cup {rule} ELSE params

\* train(...) up to the linker: the two early returns, the sample.
TrainStart ==
  /\ pc = "idle" /\ etl_pc = "idle" /\ train_pc = "idle"
  /\ train_attempts' = <<>>
  /\ train_params' = {}
  /\ train_rule' = 0
  /\ IF ~staging_exists
     THEN train_result' = "no_table" /\ train_pc' = "idle"
     ELSE IF DOMAIN staging_identitas = {}
     THEN train_result' = "no_data" /\ train_pc' = "idle"
     ELSE train_result' = "none" /\ train_pc' = "u"
  /\ UNCHANGED model_file
  /\ UNCHANGED <<main_vars, uf_vars, pf_vars, sid_vars>>

\* estimate_u_using_random_sampling
TrainEstimateU ==
  /\ train_pc = "u"
  /\ train_pc' = "prior"
  /\ UNCHANGED <<train_rule, train_attempts, train_params, model_file,
                 train_result>>
  /\ UNCHANGED <<main_vars, uf_vars, pf_vars, sid_vars>>

\* estimate_probability_two_random_records_match
TrainEstimatePrior ==
  /\ train_pc = "prior"
  /\ train_pc' = "em"
  /\ train_rule' = 1
  /\ UNCHANGED <<train_attempts, train_params, model_file, train_result>>
  /\ UNCHANGED <<main_vars, uf_vars, pf_vars, sid_vars>>

\* One iteration of the loop over get_em_training_rules(): the EM call
\* returns or raises.
TrainEm ==
  /\ train_pc = "em"
  /\ \E ok \in BOOLEAN :
       /\ train_attempts' =
            Append(train_attempts,
                   [rule |-> get_em_training_rules[train_rule], ok |-> ok])
       /\ train_params' =
            AfterEm(train_params, get_em_training_rules[train_rule], ok)
  /\ train_rule' = train_rule + 1
  /\ train_pc' = IF train_rule = Len(get_em_training_rules)
                 THEN "save" ELSE "em"
  /\ UNCHANGED <<model_file, train_result>>
  /\ UNCHANGED <<main_vars, uf_vars, pf_vars, sid_vars>>

\* save_model_to_json(MODEL_PATH, overwrite=True)
TrainSave ==
  /\ train_pc = "save"
  /\ model_file' = [exists |-> TRUE, params |-> train_params]
  /\ train_result' = "saved"
  /\ train_pc' = "idle"
  /\ UNCHANGED <<train_rule, train_attempts, train_params>>
  /\ UNCHANGED <<main_vars, uf_vars, pf_vars, sid_vars>>

\* A statement outside the try raises, or the process stops: train ends
\* there and the model file stays as it was.
TrainFail ==
  /\ train_pc \in {"u", "prior", "em", "save"}
  /\ train_result' = "failed"
  /\ train_pc' = "idle"
  /\ UNCHANGED <<train_rule, train_attempts, train_params, model_file>>
  /\ UNCHANGED <<main_vars, uf_vars, pf_vars, sid_vars>>

\* ----------------------------------------------------------- specification

Thresholds == {1, 2}
BatchSizes == 1..MaxBatchSize
Limits     == {NoLimit} \cup 1..MaxLimit
PairCaps   == 1..MaxPairsCap

MainInit(n) ==
  /\ identitas = IdsUpTo(n)
  /\ staging_exists = FALSE
  /\ staging_identitas = <<>>
  /\ processed_clusters = {}
  /\ last_processed_id = Zero
  /\ etl_pc = "idle"
  /\ etl_last_id = Zero /\ etl_start_id = Zero /\ etl_total = 0
  /\ etl_limit = NoLimit /\ etl_batch_size = 1
  /\ pc = "idle"
  /\ threshold = 1 /\ batch_size = 1 /\ limit = NoLimit
  /\ max_pairs_per_batch = 1
  /\ total_processed = 0
  /\ new_records_df = <<>>
  /\ batch_pairs = {}
  /\ assignments_df = {}
  /\ merges_df = {}
  /\ run_result = "none"
  /\ hist = NoHist

NoCall == [op |-> "none", a |-> <<>>, b |-> <<>>, ret |-> <<>>]

UFCIdle == ufc_edges = {} /\ ufc_last = NoCall /\ ufc_ncalls = 0

UFIdle ==
  /\ uf = EmptyUF
  /\ uf_new_ids = {} /\ uf_pending = {} /\ uf_npairs = 0
  /\ uf_all_nodes = {} /\ uf_todo = {} /\ uf_components = <<>>
  /\ uf_pc = "off"
  /\ UFCIdle

Init ==
  /\ MainInit(NumIds)
  /\ match_probability \in
       {f \in [Pairs -> 0..2] :
          Cardinality({p \in Pairs : f[p] > 0}) <= MaxCandidatePairs}
  /\ UFIdle
  /\ FnIdle

Next ==
  \/ \E bs \in BatchSizes, resume \in BOOLEAN, lim \in Limits :
       ExtractStart(bs, resume, lim)
  \/ ExtractBatch
  \/ ExtractInsertFail
  \/ ExtractFetchFail
  \/ \E thr \in Thresholds, bs \in BatchSizes, lim \in Limits,
        cap \in PairCaps : StartRun(thr, bs, lim, cap)
  \/ Select
  \/ Score
  \/ Resolve
  \/ MergeRewrite
  \/ Upsert
  \/ Mark
  \/ RunFail

Spec == Init /\ [][Next]_vars

\* ------------------------------------------- the clustering steps, one by one

UFIds == IdsUpTo(NumUFIds)

\* for nid in new_ids: uf.add(nid), in any iteration order.
UFAddStep ==
  /\ uf_pc = "add"
  /\ \E nid \in uf_pending :
       /\ uf' = UFAdd(uf, nid)
       /\ uf_pending' = uf_pending \ {nid}
  /\ UNCHANGED <<uf_new_ids, uf_npairs, uf_all_nodes, uf_todo, uf_components,
                 uf_pc>>
  /\ UNCHANGED <<ufc_vars, main_vars, fn_vars>>

\* for l_id, r_id in pairs: uf.union(l_id, r_id); all_nodes.add(...), for any
\* next row of the pair list.
UFUnionStep ==
  /\ \/ uf_pc = "add" /\ uf_pending = {}
     \/ uf_pc = "union"
  /\ uf_npairs < MaxUFPairs
  /\ \E l_id \in UFIds, r_id \in UFIds :
       /\ uf' = UFUnion(uf, l_id, r_id)
       /\ uf_all_nodes' = uf_all_nodes \cup {l_id, r_id}
  /\ uf_npairs' = uf_npairs + 1
  /\ uf_pc' = "union"
  /\ UNCHANGED <<uf_new_ids, uf_pending, uf_todo, uf_components>>
  /\ UNCHANGED <<ufc_vars, main_vars, fn_vars>>

\* components = {}: the pair list is exhausted.
UFBuildStart ==
  /\ \/ uf_pc = "add" /\ uf_pending = {}
     \/ uf_pc = "union"
  /\ uf_todo' = uf_all_nodes
  /\ uf_components' = <<>>
  /\ uf_pc' = "build"
  /\ UNCHANGED <<uf, uf_new_ids, uf_pending, uf_npairs, uf_all_nodes>>
  /\ UNCHANGED <<ufc_vars, main_vars, fn_vars>>

\* for node in all_nodes: root = uf.find(node); components.setdefault(...)
UFBuildStep ==
  /\ uf_pc = "build"
  /\ \E node \in uf_todo :
       LET f == UFFind(uf, node)
       IN  /\ uf' = f.uf
           /\ uf_components' = ComponentsInsert(uf_components, f.root, node)
           /\ uf_todo' = uf_todo \ {node}
  /\ UNCHANGED <<uf_new_ids, uf_pending, uf_npairs, uf_all_nodes, uf_pc>>
  /\ UNCHANGED <<ufc_vars, main_vars, fn_vars>>

UFInit ==
  /\ MainInit(NumUFIds)
  /\ match_probability = [p \in Pairs |-> 0]
  /\ uf = EmptyUF
  /\ uf_new_ids \in SUBSET UFIds
  /\ uf_pending = uf_new_ids
  /\ uf_all_nodes = uf_new_ids
  /\ uf_npairs = 0
  /\ uf_todo = {}
  /\ uf_components = <<>>
  /\ uf_pc = "add"
  /\ UFCIdle
  /\ FnIdle

UFNext ==
  \/ UFAddStep
  \/ UFUnionStep
  \/ UFBuildStart
  \/ UFBuildStep

SpecUF == UFInit /\ [][UFNext]_vars

\* ------------------------------------------ a UnionFind called directly

\* uf.add(x)
UFCallAdd(x) ==
  /\ uf_pc = "calls" /\ ufc_ncalls < MaxUFCalls
  /\ uf' = UFAdd(uf, x)
  /\ ufc_last' = [op |-> "add", a |-> x, b |-> x, ret |-> <<>>]
  /\ ufc_ncalls' = ufc_ncalls + 1
  /\ UNCHANGED <<ufc_edges, uf_new_ids, uf_pending, uf_npairs, uf_all_nodes,
                 uf_todo, uf_components, uf_pc>>
  /\ UNCHANGED <<main_vars, fn_vars>>

\* uf.find(x)
UFCallFind(x) ==
  /\ uf_pc = "calls" /\ ufc_ncalls < MaxUFCalls
  /\ LET f == UFFind(uf, x)
     IN  /\ uf' = f.uf
         /\ ufc_last' = [op |-> "find", a |-> x, b |-> x, ret |-> f.root]
  /\ ufc_ncalls' = ufc_ncalls + 1
  /\ UNCHANGED <<ufc_edges, uf_new_ids, uf_pending, uf_npairs, uf_all_nodes,
                 uf_todo, uf_components, uf_pc>>
  /\ UNCHANGED <<main_vars, fn_vars>>

\* uf.union(a, b)
UFCallUnion(a, b) ==
  /\ uf_pc = "calls" /\ ufc_ncalls < MaxUFCalls
  /\ uf' = UFUnion(uf, a, b)
  /\ ufc_edges' = ufc_edges \cup {<<a, b>>}
  /\ ufc_last' = [op |-> "union", a |-> a, b |-> b, ret |-> <<>>]
  /\ ufc_ncalls' = ufc_ncalls + 1
  /\ UNCHANGED <<uf_new_ids, uf_pending, uf_npairs, uf_all_nodes, uf_todo,
                 uf_components, uf_pc>>
  /\ UNCHANGED <<main_vars, fn_vars>>

\* uf = UnionFind()
UFCallsInit ==
  /\ MainInit(NumUFIds)
  /\ match_probability = [p \in Pairs |-> 0]
  /\ uf = EmptyUF
  /\ uf_new_ids = {} /\ uf_pending = {} /\ uf_npairs = 0
  /\ uf_all_nodes = {} /\ uf_todo = {} /\ uf_components = <<>>
  /\ uf_pc = "calls"
  /\ UFCIdle
  /\ FnIdle

UFCallsNext ==
  \/ \E x \in UFIds : UFCallAdd(x)
  \/ \E x \in UFIds : UFCallFind(x)
  \/ \E a \in UFIds, b \in UFIds : UFCallUnion(a, b)

SpecUFCalls == UFCallsInit /\ [][UFCallsNext]_vars

\* ------------------------------------- larger worlds, fewer ways to run

\* A cap no batch reaches: every pair of the world, in both orientations.
NoCap == 2 * Cardinality(Pairs)

\* SpecCrash: four records, runs at either threshold that may fail at any
\* statement; the whole source is staged by one extract.
CrashInit ==
  /\ MainInit(NumIdsCrash)
  /\ match_probability \in
       {f \in [Pairs -> 0..2] :
          Cardinality({p \in Pairs : f[p] > 0}) <= MaxCandidatePairs}
  /\ UFIdle
  /\ FnIdle

CrashNext ==
  \/ ExtractStart(MaxBatchSize, TRUE, NoLimit)
  \/ ExtractBatch
  \/ \E thr \in Thresholds, bs \in BatchSizes :
       StartRun(thr, bs, NoLimit, NoCap)
  \/ Select
  \/ Score
  \/ Resolve
  \/ MergeRewrite
  \/ Upsert
  \/ Mark
  \/ RunFail

SpecCrash == CrashInit /\ [][CrashNext]_vars

\* SpecMerge: five records, every scored pair at the higher level, runs that
\* never fail, started with any batch size and limit.
MergeInit ==
  /\ MainInit(NumIdsMerge)
  /\ match_probability \in
       {f \in [Pairs -> {0, 2}] :
          Cardinality({p \in Pairs : f[p] > 0}) <= MaxCandidatePairsMerge}
  /\ UFIdle
  /\ FnIdle

MergeNext ==
  \/ ExtractStart(MaxBatchSize, TRUE, NoLimit)
  \/ ExtractBatch
  \/ \E bs \in BatchSizes, lim \in Limits : StartRun(2, bs, lim, NoCap)
  \/ Select
  \/ Score
  \/ Resolve
  \/ MergeRewrite
  \/ Upsert
  \/ Mark

SpecMerge == MergeInit /\ [][MergeNext]_vars

\* SpecExtract: four source records and extracts only, resumed or not, with
\* any batch size and limit, whose statements may fail; a started loop keeps
\* iterating.
ExtractInit ==
  /\ MainInit(NumIdsCrash)
  /\ match_probability = [p \in Pairs |-> 0]
  /\ UFIdle
  /\ FnIdle

ExtractNext ==
  \/ \E bs \in BatchSizes, resume \in BOOLEAN, lim \in Limits :
       ExtractStart(bs, resume, lim)
  \/ ExtractBatch
  \/ ExtractInsertFail
  \/ ExtractFetchFail

\* while True: the next iteration is taken unless the loop was left.  This is
\* weak fairness of ExtractBatch, written with its enabling condition: an
\* iteration can be taken exactly while the loop is running.
ExtractFairness == []<>(etl_pc # "loop") \/ []<><<ExtractBatch>>_vars

SpecExtract == ExtractInit /\ [][ExtractNext]_vars /\ ExtractFairness

\* ------------------------------------------------ one pair, every option

\* --threshold (min 0.0, max 1.0), in percent.
PfThresholds == {0, 5, 50, 90, 100}

\* SpecPrefilter: one scored pair of any match weight, a run with any
\* threshold and any match_weight_threshold (-4 is the default).
PfInit ==
  /\ MainInit(NumIds)
  /\ match_probability = [p \in Pairs |-> 0]
  /\ UFIdle
  /\ pf_weight \in (0 - MaxWeight)..MaxWeight
  /\ pf_threshold \in PfThresholds
  /\ pf_mwt \in (0 - MaxWeight)..MaxWeight
  /\ pf_kept = FALSE
  /\ pf_pc = "score"
  /\ TrainIdle
  /\ SidIdle

PfNext ==
  \/ PfScore

SpecPrefilter == PfInit /\ [][PfNext]_vars

\* ------------------------------------------------------- extract and train

\* SpecTrain: extractions and trainings in any order, every EM call free
\* to raise.
TrainInit ==
  /\ MainInit(NumIds)
  /\ match_probability = [p \in Pairs |-> 0]
  /\ UFIdle
  /\ FnIdle

TrainNext ==
  \/ \E bs \in 1..MaxBatchSize : ExtractStart(bs, TRUE, NoLimit)
  \/ ExtractBatch
  \/ ExtractFetchFail
  \/ TrainStart
  \/ TrainEstimateU
  \/ TrainEstimatePrior
  \/ TrainEm
  \/ TrainSave
  \/ TrainFail

SpecTrain == TrainInit /\ [][TrainNext]_vars

\* ------------------------------------------------- any representative id

\* "0", "1", "9", "A" and SUPERSCRIPT TWO.
SidAlphabet == {48, 49, 57, 65, 178}

\* The limit, the limit with a leading zero, the limit plus one.
SidBoundary ==
  LET m == DecimalDigits(Int63Max)
  IN  {m, <<48>> \o m, [m EXCEPT ![Len(m)] = m[Len(m)] + 1]}

\* SpecClusterId: _stable_cluster_id called on any string.
SidInit ==
  /\ MainInit(NumIds)
  /\ match_probability = [p \in Pairs |-> 0]
  /\ UFIdle
  /\ PfIdle
  /\ TrainIdle
  /\ sid_input \in UNION {[1..k -> SidAlphabet] : k \in 0..MaxIdLen}
                    \cup SidBoundary
  /\ sid_result = NoResult
  /\ sid_pc = "call"

SidNext ==
  \/ StableClusterIdCall

SpecClusterId == SidInit /\ [][SidNext]_vars

\* SpecBridge: six records, every scored pair at the higher level, runs of
\* the largest batch size that never fail, with or without a limit.
BridgeInit ==
  /\ MainInit(NumIdsBridge)
  /\ match_probability \in
       {f \in [Pairs -> {0, 2}] :
          Cardinality({p \in Pairs : f[p] > 0}) <= MaxCandidatePairsBridge}
  /\ UFIdle
  /\ FnIdle

BridgeNext ==
  \/ ExtractStart(MaxBatchSize, TRUE, NoLimit)
  \/ ExtractBatch
  \/ \E lim \in Limits : StartRun(2, MaxBatchSize, lim, NoCap)
  \/ Select
  \/ Score
  \/ Resolve
  \/ MergeRewrite
  \/ Upsert
  \/ Mark

SpecBridge == BridgeInit /\ [][BridgeNext]_vars

\* ------------------------------------------------------- runs that proceed

\* Every statement of a run under way is executed once the run has reached
\* it (every call on the store returns); only a failure ends the run before.
\* The weak fairness of Resolve is written with its enabling condition,
\* pc = "resolve", in place of ENABLED.
RunFairness ==
  /\ WF_vars(Select)
  /\ WF_vars(Score)
  /\ ([]<>(pc # "resolve") \/ []<><<Resolve>>_vars)
  /\ WF_vars(MergeRewrite)
  /\ WF_vars(Upsert)
  /\ WF_vars(Mark)

\* SpecLive: three records, runs without a limit with any threshold, batch
\* size and cap; a run may fail at any statement, and a run that has not
\* failed executes its next statement.
LiveNext ==
  \/ ExtractStart(MaxBatchSize, TRUE, NoLimit)
  \/ ExtractBatch
  \/ \E thr \in Thresholds, bs \in BatchSizes, cap \in PairCaps :
       StartRun(thr, bs, NoLimit, cap)
  \/ Select
  \/ Score
  \/ Resolve
  \/ MergeRewrite
  \/ Upsert
  \/ Mark
  \/ RunFail

SpecLive == Init /\ [][LiveNext]_vars /\ RunFairness

\* ------------------------------------------------------------------ claims

\* The CIF a record id holds in a table of cluster rows (the set of them).
CifsOf(pclusters, id) ==
  {r.CIF_NUMBER : r \in {x \in pclusters : x.NOMOR_INDUK = id}}

\* The connected component of n in the undirected graph of the edge table.
RECURSIVE Reach(_, _)
Reach(E, S) ==
  LET T == S \cup {e[2] : e \in {x \in E : x[1] \in S}}
             \cup {e[1] : e \in {x \in E : x[2] \in S}}
  IN  IF T = S THEN S ELSE Reach(E, T)

GraphComponent(n) == Reach(PairsOf(batch_pairs), {n})

\* C1: while and after the components map is built, every node of all_nodes
\* already visited is in exactly one component, no unvisited node is in any,
\* and the components hold nothing but nodes of all_nodes; when the loop is
\* over the components partition all_nodes.
C1_Partition ==
  uf_pc = "build" =>
    /\ \A n \in uf_all_nodes \ uf_todo :
         Cardinality({r \in DOMAIN uf_components : n \in uf_components[r]}) = 1
    /\ \A n \in uf_todo :
         \A r \in DOMAIN uf_components : n \notin uf_components[r]
    /\ \A r \in DOMAIN uf_components :
         uf_components[r] # {} /\ uf_components[r] \subseteq uf_all_nodes

\* The components of a batch with three edges are built: several of them,
\* one with more than one node.
C1_Built ==
  /\ uf_pc = "build" /\ uf_todo = {}
  /\ uf_npairs = MaxUFPairs
  /\ Cardinality(DOMAIN uf_components) >= 2
  /\ \E r \in DOMAIN uf_components : Cardinality(uf_components[r]) >= 2

\* C2: while a run is under way that follows a run which ended because no
\* record was unprocessed, with no record newly staged in between, no record
\* is unprocessed, the run selects no batch and ends, and no row of
\* processed_clusters or staging_identitas changes.
C2_SecondRunNoOp ==
  [][(run_result = "exhausted" /\ pc # "idle") =>
       /\ Unprocessed = {}
       /\ pc = "select" /\ pc' = "idle"
       /\ processed_clusters' = processed_clusters
       /\ staging_identitas' = staging_identitas]_vars

\* C3 (second half): no step gives two records that share a CIF two
\* different CIFs.
C3_NoSplit ==
  [][\A r1 \in processed_clusters, r2 \in processed_clusters :
       r1.CIF_NUMBER = r2.CIF_NUMBER =>
         \A c1 \in CifsOf(processed_clusters', r1.NOMOR_INDUK),
            c2 \in CifsOf(processed_clusters', r2.NOMOR_INDUK) : c1 = c2]_vars

\* C4: when a batch commits (its records are marked), every entry that held
\* one of the CIFs of a resolved component before the batch, and every batch
\* record of the component, holds the smallest of those CIFs.
C4_SmallestCifWins ==
  [][(pc = "mark" /\ pc' = "select") =>
       \A c \in hist.components :
         LET cifs == ExistingCifs(c, hist.existing)
         IN  (c \cap NewIds # {} /\ cifs # {}) =>
               /\ \A r \in hist.before_clusters :
                    r.CIF_NUMBER \in cifs =>
                      CifsOf(processed_clusters', r.NOMOR_INDUK)
                        = {LexMin(cifs)}
               /\ \A n \in c \cap NewIds :
                    CifsOf(processed_clusters', n) = {LexMin(cifs)}]_vars

\* The candidate pairs of the batch: the pairs the linker scores that join a
\* batch record and another staged record.
CandidatePairs ==
  {p \in Pairs : /\ p \cap NewIds # {}
                 /\ p \subseteq Staged
                 /\ match_probability[p] > 0}

\* The filtered edge rows of the batch: a batch record, another staged record,
\* and a match probability that reaches the threshold.
FilteredEdgeRows ==
  {e \in NewIds \X Staged :
     e[1] # e[2] /\ match_probability[{e[1], e[2]}] >= threshold}

\* C5 as stated: the scoring step of a batch aborts the run, marking no
\* record of the batch, exactly when the number of candidate pairs of the
\* batch exceeds max_pairs_per_batch.
C5_CandidatePairCap ==
  [][Score =>
       IF Cardinality(CandidatePairs) > max_pairs_per_batch
       THEN /\ pc' = "idle" /\ run_result' = "aborted"
            /\ staging_identitas' = staging_identitas
       ELSE pc' = "resolve"]_vars

\* C5: the scoring step of a batch aborts the run, marking no record and
\* changing no cluster entry, exactly when the number of filtered edge rows
\* of the batch exceeds max_pairs_per_batch; with a number equal to the cap
\* the batch goes on to be resolved.
C5_FilteredEdgeCap ==
  [][Score =>
       IF Cardinality(FilteredEdgeRows) > max_pairs_per_batch
       THEN /\ pc' = "idle" /\ run_result' = "aborted"
            /\ staging_identitas' = staging_identitas
            /\ processed_clusters' = processed_clusters
       ELSE pc' = "resolve"]_vars

\* A run was aborted by a batch with one filtered edge row more than the cap,
\* and the records of that batch are still unprocessed.
C5_AbortedOneOver ==
  /\ pc = "idle" /\ run_result = "aborted"
  /\ hist.excess = 1
  /\ Unprocessed # {}

\* C6: a failure between the merge rewrite, the upsert and the marking leaves
\* processed_clusters and the processed flags as they were when the batch
\* was selected.
C6_AtomicCommit ==
  [][(pc \in {"merge", "upsert", "mark"} /\ pc' = "idle") =>
       /\ processed_clusters' = hist.before_clusters
       /\ Processed' = hist.before_processed]_vars

\* C7: when a run ends inside a batch, no record of the batch is marked, the
\* flags set before the batch stay set, every cluster entry of a record
\* processed before the batch is kept as it was, and selecting a batch of the
\* same size again yields the same records.
C7_FailedBatchRetried ==
  [][(pc \in {"score", "resolve", "merge", "upsert", "mark"} /\ pc' = "idle") =>
       /\ NewIds \cap Processed' = {}
       /\ hist.before_processed \subseteq Processed'
       /\ \A r \in hist.before_clusters :
            r.NOMOR_INDUK \in hist.before_processed =>
              r \in processed_clusters'
       /\ SelectBatch(staging_identitas', Len(new_records_df))
            = new_records_df]_vars

\* C8: no step of a run or of an extract turns a processed record back
\* into an unprocessed one.
C8_ProcessedMonotonic ==
  [][\A id \in Processed : id \in Processed']_vars

\* C9: every record id has at most one row in processed_clusters, every
\* processed record has exactly one row and its CIF is not null, and every
\* record of a resolved batch has exactly one assignment row.
C9_OneEntryPerRecord ==
  /\ \A id \in Ids :
       Cardinality({r \in processed_clusters : r.NOMOR_INDUK = id}) <= 1
  /\ \A id \in Processed :
       Cardinality({r \in processed_clusters :
                      r.NOMOR_INDUK = id /\ r.CIF_NUMBER # <<>>}) = 1
  /\ pc \in {"merge", "upsert", "mark"} =>
       \A n \in NewIds :
         Cardinality({a \in assignments_df : a.NOMOR_INDUK = n}) = 1

\* The upsert of a batch has replaced the earlier row of one of its records
\* by a different one, while other records are processed.
C9_RowReplaced ==
  /\ pc = "mark"
  /\ Processed # {}
  /\ \E n \in NewIds :
       \E r \in hist.before_clusters :
         r.NOMOR_INDUK = n /\ r \notin processed_clusters

\* A component whose members had no row with a CIF when the batch was
\* selected.
NoPriorCif(comp) ==
  \A m \in comp : \A r \in hist.before_clusters :
    r.NOMOR_INDUK = m => r.CIF_NUMBER = <<>>

\* C10: a batch record whose component (in the graph of the batch's edge
\* rows) has no member with a persisted CIF is assigned "CIF-" followed by
\* the lexicographically smallest id of the component, and holds it after
\* the upsert; so do all batch records of that component.
C10_MintedFromSmallestId ==
  pc \in {"merge", "upsert", "mark"} =>
    \A n \in NewIds :
      LET comp == GraphComponent(n)
          cif  == CifPrefix \o LexMin(comp)
      IN  NoPriorCif(comp) =>
            /\ {a.CIF_NUMBER : a \in {x \in assignments_df :
                                         x.NOMOR_INDUK = n}} = {cif}
            /\ pc = "mark" => CifsOf(processed_clusters, n) = {cif}

\* Two matched records of one batch, neither with a prior CIF, hold the CIF
\* minted from the smaller id after the upsert: "10" and "2" hold "CIF-10".
C10_PairMinted ==
  /\ pc = "mark"
  /\ \E n \in NewIds, m \in NewIds :
       /\ LexLess(m, n)
       /\ DigitsToInt(n) < DigitsToInt(m)
       /\ GraphComponent(n) = {m, n}
       /\ NoPriorCif({m, n})
       /\ CifsOf(processed_clusters, n) = {CifPrefix \o m}
       /\ CifsOf(processed_clusters, m) = {CifPrefix \o m}

\* The smallest of three numbers.
Min3(a, b, c) ==
  IF a <= b /\ a <= c THEN a ELSE IF b <= c THEN b ELSE c

\* A run is inside a batch: the batch is selected and not yet marked.
InBatch == pc \in {"score", "resolve", "merge", "upsert", "mark"}

\* C11: the batch a run works on holds unprocessed records only, in strictly
\* ascending lexicographic order, as many as the smallest of the batch size,
\* the number of unprocessed records and the rest of the limit, and every
\* unprocessed record left out has a larger id than every selected one.
C11_SmallestUnprocessedFirst ==
  InBatch =>
    LET n == Len(new_records_df)
        remaining == IF limit = NoLimit THEN batch_size
                     ELSE limit - total_processed
    IN  /\ n = Min3(batch_size, Cardinality(Unprocessed), remaining)
        /\ n = Cardinality(NewIds)
        /\ \A i \in 1..(n - 1) :
             LexLess(new_records_df[i], new_records_df[i + 1])
        /\ NewIds \subseteq Unprocessed
        /\ \A u \in Unprocessed \ NewIds : \A x \in NewIds : LexLess(x, u)

\* A batch cut short by the limit: smaller than the batch size, with
\* unprocessed records left out, after another record was processed.
C11_BatchCutByLimit ==
  /\ pc = "score"
  /\ limit # NoLimit
  /\ Len(new_records_df) < batch_size
  /\ Unprocessed \ NewIds # {}
  /\ Processed # {}

\* C12: while a batch is committed, every processed_clusters row that
\* existed when the batch was selected and is not a row of a batch record is
\* still there with its record id and cluster id, and with its CIF, or, when
\* its CIF is the old side of a merge row of the batch, with that row's new
\* CIF.
C12_HistoryPreserved ==
  InBatch =>
    \A r \in hist.before_clusters :
      r.NOMOR_INDUK \notin NewIds =>
        \E q \in processed_clusters :
          /\ q.NOMOR_INDUK = r.NOMOR_INDUK
          /\ q.CLUSTER_ID = r.CLUSTER_ID
          /\ \/ q.CIF_NUMBER = r.CIF_NUMBER
             \/ \E m \in merges_df :
                  m[1] = r.CIF_NUMBER /\ m[2] = q.CIF_NUMBER

\* A batch with a merge has upserted: one earlier row of another record was
\* rewritten, another earlier row of another record is as it was.
C12_MergedAndKept ==
  /\ pc = "mark"
  /\ merges_df # {}
  /\ \E r \in hist.before_clusters :
       r.NOMOR_INDUK \notin NewIds /\ r \notin processed_clusters
  /\ \E r \in hist.before_clusters :
       r.NOMOR_INDUK \notin NewIds /\ r \in processed_clusters

\* C13: when a batch commits, any two records of the component of a batch
\* record (in the graph of the batch's edge rows) that have a row in
\* processed_clusters hold the same CIF.
C13_ComponentHoldsOneCif ==
  [][(pc = "mark" /\ pc' = "select") =>
       \A n \in NewIds :
         \A x \in GraphComponent(n), y \in GraphComponent(n) :
           \A cx \in CifsOf(processed_clusters', x),
              cy \in CifsOf(processed_clusters', y) : cx = cy]_vars

\* C14: a scored pair is a row of batch_pairs exactly when its match
\* probability reaches the threshold, whatever the threshold and the
\* match_weight_threshold of the run.
C14_PrefilterSound ==
  pf_pc = "done" =>
    (pf_kept <=> ProbabilityAtLeast(pf_weight, pf_threshold))

Succeeded == {train_attempts[i].rule : i \in {j \in DOMAIN train_attempts : train_attempts[j].ok}}

\* C16: a train that saved a model had at least one rule whose EM step
\* succeeded (a train whose EM step failed for every rule does not end with a
\* saved model).
C16_AllRulesFailedIsAnError ==
  train_result = "saved" => Succeeded # {}

\* C17: when train has saved the model and at least one EM step succeeded,
\* every rule of get_em_training_rules() was attempted once, in list order,
\* failed steps included, and the saved model holds the parameters of exactly
\* the rules that succeeded.
C17_FailedRuleIsSkipped ==
  (train_result = "saved" /\ Succeeded # {}) =>
    /\ [i \in DOMAIN train_attempts |-> train_attempts[i].rule]
         = get_em_training_rules
    /\ model_file.exists
    /\ model_file.params = Succeeded

C17_SavedAfterFailure ==
  /\ train_result = "saved"
  /\ ~train_attempts[1].ok /\ train_attempts[2].ok
  /\ ~train_attempts[3].ok /\ train_attempts[4].ok
  /\ model_file.params = {get_em_training_rules[2], get_em_training_rules[4]}

\* C18: _stable_cluster_id returns, for every representative id, an integer
\* from 0 to the signed 63-bit maximum: the integer written by the id when
\* the id is a string of digits of value at most the maximum, the hash-derived
\* value modulo the maximum for every other id.
C18_StableClusterIdTotal ==
  sid_pc = "done" =>
    /\ ~sid_result.raised
    /\ sid_result.value \in 0..Int63Max
    /\ sid_result.value =
         IF IsDigit(sid_input) /\ FitsInt63(sid_input)
         THEN DigitsToInt(sid_input)
         ELSE HexPrefixValue(sid_input) % Int63Max

\* C20: in a run with a limit, the records the run has marked processed
\* never number more than the limit: total_processed counts exactly the
\* records each batch marks, nothing else in the run marks a record,
\* total_processed stays at or below the limit, and the SELECT that finds the
\* limit reached ends the run without a batch, unprocessed records or not.
C20_LimitBoundsRun ==
  [][/\ (pc = "mark" /\ pc' = "select") =>
          /\ Processed' \ Processed = NewIds
          /\ total_processed' = total_processed + Cardinality(NewIds)
     /\ (pc # "idle" /\ ~(pc = "mark" /\ pc' = "select")) =>
          /\ Processed' = Processed
          /\ pc' # "idle" => total_processed' = total_processed
     /\ (pc = "idle" /\ pc' # "idle") => total_processed' = 0
     /\ (pc' # "idle" /\ limit' # NoLimit) => total_processed' <= limit'
     /\ (pc = "select" /\ limit # NoLimit /\ total_processed >= limit) =>
          pc' = "idle" /\ new_records_df' = <<>>]_vars

C20_StoppedAtLimit ==
  /\ pc = "idle" /\ run_result = "limit"
  /\ Unprocessed # {} /\ Processed # {}

\* C21: the step that aborts a run on the pair cap leaves processed_clusters
\* and the processed flags as they were when the batch was selected, that is
\* after the last committed batch, writes nothing for the aborted batch and
\* ends the run; once the run has ended its batch is gone, processed_clusters
\* changes no more and no flag is set until a new run starts from its first
\* batch.
C21_AbortWritesNothing ==
  [][/\ (pc = "score" /\ run_result' = "aborted" /\ pc' = "idle") =>
          /\ processed_clusters' = processed_clusters
          /\ processed_clusters' = hist.before_clusters
          /\ staging_identitas' = staging_identitas
          /\ Processed' = hist.before_processed
          /\ NewIds \cap Processed' = {}
          /\ new_records_df' = <<>> /\ assignments_df' = {} /\ merges_df' = {}
     /\ (pc = "idle" /\ run_result = "aborted") =>
          /\ processed_clusters' = processed_clusters
          /\ Processed' \subseteq Processed
          /\ pc' # "idle" => pc' = "select" /\ total_processed' = 0]_vars

\* A run that committed a batch is about to abort on its next one.
C21_AbortAfterCommit ==
  /\ pc = "score" /\ total_processed > 0
  /\ Cardinality(FilteredEdgeRows) > max_pairs_per_batch
  /\ processed_clusters # {}

\* The record ids that have a row in a table of cluster rows.
IdsOf(pclusters) == {r.NOMOR_INDUK : r \in pclusters}

\* C22: a run moves through a batch in the order select, scoring, resolution,
\* merge rewrite, upsert, marking and only then selects again (or it ends);
\* select, scoring and resolution write nothing; the merge rewrite changes
\* CIFs only, before any assignment of the batch is inserted; the upsert
\* inserts the assignments and marks nothing; the marking is applied to the
\* whole batch before the next select, which takes unprocessed records only.
C22_StepOrder ==
  [][/\ pc' # pc =>
          \/ pc' = "idle"
          \/ <<pc, pc'>> \in {<<"idle", "select">>, <<"select", "score">>,
                              <<"score", "resolve">>, <<"resolve", "merge">>,
                              <<"merge", "upsert">>, <<"upsert", "mark">>,
                              <<"mark", "select">>}
     /\ pc \in {"select", "score", "resolve"} =>
          /\ processed_clusters' = processed_clusters
          /\ staging_identitas' = staging_identitas
     /\ (pc = "select" /\ pc' = "score") => NewIds' \cap Processed = {}
     /\ (pc = "merge" /\ pc' = "upsert") =>
          /\ IdsOf(processed_clusters') = IdsOf(processed_clusters)
          /\ \A r \in processed_clusters' :
               \E q \in processed_clusters :
                 /\ q.NOMOR_INDUK = r.NOMOR_INDUK
                 /\ q.CLUSTER_ID = r.CLUSTER_ID
                 /\ \/ q.CIF_NUMBER = r.CIF_NUMBER
                    \/ <<q.CIF_NUMBER, r.CIF_NUMBER>> \in merges_df
          /\ staging_identitas' = staging_identitas
     /\ (pc = "upsert" /\ pc' = "mark") =>
          /\ assignments_df \subseteq processed_clusters'
          /\ \A r \in processed_clusters' \ assignments_df :
               r \in processed_clusters
          /\ staging_identitas' = staging_identitas
     /\ (pc = "mark" /\ pc' = "select") =>
          /\ NewIds \subseteq Processed'
          /\ processed_clusters' = processed_clusters]_vars

\* The third batch of a run, one with a merge, has been upserted and awaits
\* its marking.
C22_ThirdBatchUpserted ==
  /\ pc = "mark" /\ total_processed >= 2
  /\ merges_df # {}
  /\ assignments_df \subseteq processed_clusters
  /\ NewIds \cap Processed = {}

\* C23: when a batch commits, no entry of processed_clusters holds a CIF
\* that is the old side of one of the batch's merge instructions.
C23_NoOldCifLeft ==
  [][(pc = "mark" /\ pc' = "select") =>
       \A r \in processed_clusters' :
         \A m \in merges_df : r.CIF_NUMBER # m[1]]_vars

\* The tables a commit of the batch in hand can produce when the batch is
\* resolved against the table pclusters: resolution, merge rewrite, upsert.
CommitFrom(pclusters) ==
  LET pairs    == PairsOf(batch_pairs)
      comps    == BatchComponents(NewIds, pairs)
      existing == ExistingCifById(pclusters, AllNodes(NewIds, pairs))
      a        == Assignments(comps, NewIds, existing)
      m        == Merges(comps, NewIds, existing)
  IN  IF m = {} THEN {InsertOrReplace(pclusters, a)}
      ELSE {InsertOrReplace(ApplyMerges(pclusters, g), a) :
              g \in MergeChoices(m)}

\* The table the batch in hand produces when it goes on uninterrupted from
\* after its merge rewrite, or from after its upsert.
Uninterrupted ==
  IF pc = "upsert" THEN InsertOrReplace(processed_clusters, assignments_df)
  ELSE processed_clusters

\* C24: after the merge rewrite of a batch, and after its upsert, processing
\* the same batch again from the table as it stands gives the table that
\* the uninterrupted batch gives.
C24_ReapplyHarmless ==
  pc \in {"upsert", "mark"} =>
    \A again \in CommitFrom(processed_clusters) : again = Uninterrupted

\* C25: a run without a limit ends; every batch it commits leaves strictly
\* fewer unprocessed records than there were, and when it ends otherwise than
\* by an abort or a failure no record is unprocessed.
C25_RunTerminates ==
  /\ [][(pc = "mark" /\ pc' = "select") =>
          Cardinality(Unprocessed') < Cardinality(Unprocessed)]_vars
  /\ [][(pc # "idle" /\ pc' = "idle" /\ limit = NoLimit
           /\ run_result' \notin {"aborted", "failed"}) =>
          Unprocessed' = {}]_vars
  /\ (pc # "idle" /\ limit = NoLimit) ~> (pc = "idle")

\* A run without a limit has ended after it processed three records one by
\* one, and nothing is unprocessed.
C25_RanToTheEnd ==
  /\ pc = "idle" /\ run_result = "exhausted"
  /\ Unprocessed = {} /\ Cardinality(Processed) >= 3
  /\ Cardinality({r.CIF_NUMBER : r \in processed_clusters}) >= 2

\* C26: once a batch is scored, the pairs of record ids joined by a row of
\* batch_pairs are exactly the pairs of two different staged records, one of
\* them at least in the batch, that the linker scored with a match
\* probability at or above the threshold; every row carries that probability
\* and has a batch record as its new_id.
C26_EdgeTable ==
  pc \in {"resolve", "merge", "upsert", "mark"} =>
    /\ {{e[1], e[2]} : e \in batch_pairs}
         = {p \in Pairs : /\ p \subseteq Staged
                          /\ p \cap NewIds # {}
                          /\ match_probability[p] > 0
                          /\ match_probability[p] >= threshold}
    /\ \A e \in batch_pairs :
         /\ e[1] \in NewIds
         /\ e[1] # e[2]
         /\ e[3] = match_probability[{e[1], e[2]}]

\* A scored batch with an edge whose probability equals the threshold, a
\* scored pair below the threshold that is no edge, and a matching pair of
\* two records outside the batch that is no edge either.
C26_EdgeAtThreshold ==
  /\ pc = "resolve" /\ threshold = 2
  /\ \E e \in batch_pairs : e[3] = threshold /\ e[2] \notin NewIds
  /\ \E p \in Pairs : /\ p \cap NewIds # {}
                      /\ match_probability[p] = 1
  /\ \E p \in Pairs : /\ p \cap NewIds = {} /\ p \subseteq Processed
                      /\ match_probability[p] >= threshold

\* C27: the cluster id assigned to a batch record, and held by it after the
\* upsert, is _stable_cluster_id of the lexicographically smallest record id
\* of its component in the graph of the batch's edge rows, whether the CIF is
\* minted or an existing one.
C27_ClusterIdOfSmallestId ==
  pc \in {"merge", "upsert", "mark"} =>
    \A n \in NewIds :
      LET cid == StableClusterId(LexMin(GraphComponent(n)))
      IN  /\ \A a \in assignments_df : a.NOMOR_INDUK = n => a.CLUSTER_ID = cid
          /\ pc = "mark" =>
               \A r \in processed_clusters :
                 r.NOMOR_INDUK = n => r.CLUSTER_ID = cid

\* After the upsert of a batch: an earlier record holds the CIF minted from
\* its id and the cluster id of its id, and a batch record has joined that CIF
\* through a member that is not the smallest id of the CIF and holds the
\* cluster id of that member.
C27_MintedAndReused ==
  /\ pc = "mark"
  /\ \E m \in NewIds :
       \E x \in GraphComponent(m) \ NewIds, y \in Processed :
         /\ LexLess(y, x) /\ LexLess(x, m)
         /\ y \notin GraphComponent(m)
         /\ Row(y, StableClusterId(y), MintCif(y)) \in processed_clusters
         /\ Row(m, StableClusterId(x), MintCif(y)) \in processed_clusters

\* C28: between the batches of a run, any two entries of processed_clusters
\* that hold the same CIF hold the same cluster id.
C28_OneClusterIdPerCif ==
  pc = "select" =>
    \A r1 \in processed_clusters, r2 \in processed_clusters :
      r1.CIF_NUMBER = r2.CIF_NUMBER => r1.CLUSTER_ID = r2.CLUSTER_ID

\* C29: the merge instructions of a batch map no old CIF to two canonical
\* CIFs and no CIF to itself.
C29_MergesAreAFunction ==
  pc \in {"merge", "upsert", "mark"} =>
    /\ \A m1 \in merges_df, m2 \in merges_df :
         m1[1] = m2[1] => m1[2] = m2[2]
    /\ \A m \in merges_df : m[1] # m[2]

\* s is not lexicographically larger than t.
LexLeq(s, t) == s = t \/ LexLess(s, t)

\* C30: no step gives a record that has an entry a lexicographically larger
\* CIF than the one its entry held: a merge instruction rewrites an old CIF
\* to a strictly smaller one, and neither the merge rewrite nor the upsert
\* raises the CIF of an entry.
C30_CifNeverGrows ==
  [][/\ \A r \in processed_clusters, q \in processed_clusters' :
          q.NOMOR_INDUK = r.NOMOR_INDUK =>
            LexLeq(q.CIF_NUMBER, r.CIF_NUMBER)
     /\ \A m \in merges_df' : LexLess(m[2], m[1])]_vars

\* C31: when a batch mints a CIF (a batch record whose component has no
\* member with a persisted CIF), the id the CIF is minted from is the
\* smallest id of the component and a record of the batch, and no
\* processed_clusters row holds that CIF when the batch is resolved; in
\* every state of runs, failed ones included, on records staged once.
C31_MintedFromBatchRecord ==
  pc = "merge" =>
    \A a \in assignments_df :
      LET comp == GraphComponent(a.NOMOR_INDUK)
      IN  NoPriorCif(comp) =>
            /\ LexMin(comp) \in NewIds
            /\ a.CIF_NUMBER = MintCif(LexMin(comp))
            /\ \A r \in processed_clusters : r.CIF_NUMBER # a.CIF_NUMBER

\* A batch mints a CIF for a component that also holds a record outside the
\* batch, while processed_clusters already has rows.
C31_MintedWithOutsider ==
  /\ pc = "merge"
  /\ processed_clusters # {}
  /\ \E a \in assignments_df :
       LET comp == GraphComponent(a.NOMOR_INDUK)
       IN  /\ NoPriorCif(comp)
           /\ comp \ NewIds # {}
           /\ a.CIF_NUMBER = MintCif(LexMin(comp))

\* The ids a UnionFind holds.
Present(u) == DOMAIN u.parent

\* u2 is u with x added as a singleton of rank 0, nothing else changed.
InsertedAlone(u, u2, x) ==
  /\ Present(u2) = Present(u) \cup {x}
  /\ DOMAIN u2.rank = DOMAIN u.rank \cup {x}
  /\ u2.parent[x] = x /\ u2.rank[x] = 0
  /\ \A k \in Present(u) :
       u2.parent[k] = u.parent[k] /\ u2.rank[k] = u.rank[k]

\* C32: after any sequence of add, union and find calls, find(a) = find(b)
\* exactly when a and b are connected by the pairs passed to union; add and
\* find on an unseen id insert it as a singleton (find returns it), union
\* inserts its unseen arguments, and add on a present id changes nothing.
C32_FindIsConnectivity ==
  /\ [](uf_pc = "calls" =>
          \A a \in UFIds, b \in UFIds :
            LET fa == UFFind(uf, a)
                fb == UFFind(fa.uf, b)
            IN  (fa.root = fb.root) <=> (b \in Reach(ufc_edges, {a})))
  /\ [][ufc_ncalls' # ufc_ncalls =>
          LET call == ufc_last'
          IN  /\ call.op = "add" =>
                   IF call.a \in Present(uf) THEN uf' = uf
                   ELSE InsertedAlone(uf, uf', call.a)
              /\ (call.op = "find" /\ call.a \notin Present(uf)) =>
                   InsertedAlone(uf, uf', call.a) /\ call.ret = call.a
              /\ call.op = "union" =>
                   Present(uf') = Present(uf) \cup {call.a, call.b}]_vars

\* After a find call: two ids joined only through a third one have the same
\* root, and another id has a different one.
C32_JoinedThroughThird ==
  /\ uf_pc = "calls"
  /\ ufc_last.op = "find"
  /\ \E a \in Present(uf), b \in Present(uf), c \in Present(uf) :
       /\ a # b
       /\ <<a, b>> \notin ufc_edges /\ <<b, a>> \notin ufc_edges
       /\ UFFind(uf, a).root = UFFind(uf, b).root
       /\ UFFind(uf, c).root # UFFind(uf, a).root

\* C33: while an extract invoked with a limit is in its loop, the number of
\* records it has loaded into staging_identitas is at most the limit.
C33_ExtractLimitBoundsLoad ==
  (etl_pc = "loop" /\ etl_limit # NoLimit) => etl_total <= etl_limit

\* The batch the current iteration of extract fetches.
EtlRows == FetchRows(identitas, etl_last_id, etl_batch_size)

\* An iteration of extract that inserts its batch and saves the cursor.
LoadsBatch == ExtractBatch /\ ~EtlLimitReached /\ EtlRows # <<>>

\* The batch is fetched from the saved cursor: every batch of a resumed
\* extract, every batch but the first of one started with --no-resume.
FetchedFromSavedCursor == etl_last_id = last_processed_id

\* C34 as stated: the saved cursor is written only after the insert (it
\* changes only in an iteration that inserted its batch, to the largest id
\* of that batch) and strictly increases with every loaded batch; a failed
\* insert leaves it, and the batch fetched from it is the failed batch; the
\* loop terminates.
C34_CursorStrictlyIncreases ==
  /\ [][last_processed_id' # last_processed_id =>
          /\ etl_pc = "loop"
          /\ EtlRows # <<>>
          /\ \A id \in Range(EtlRows) :
               id \in Staged' /\ ~staging_identitas'[id]
          /\ last_processed_id' \in Range(EtlRows)
          /\ \A id \in Range(EtlRows) : LexLeq(id, last_processed_id')]_vars
  /\ [][LoadsBatch => LexLess(last_processed_id, last_processed_id')]_vars
  /\ [][ExtractInsertFail =>
          /\ last_processed_id' = last_processed_id
          /\ FetchRows(identitas, last_processed_id', etl_batch_size)
               = EtlRows]_vars
  /\ (etl_pc = "loop") ~> (etl_pc = "idle")

\* C34, amended: the saved cursor is written only after the insert; every
\* loaded batch moves the cursor of the query forward, and strictly
\* increases the saved cursor when it was fetched from the saved cursor; a
\* failed insert leaves the saved cursor, and when the failed batch was
\* fetched from it, the batch fetched from it again is the failed batch; the
\* loop terminates.
C34_CursorAdvancesFromSavedCursor ==
  /\ [][last_processed_id' # last_processed_id =>
          /\ etl_pc = "loop"
          /\ EtlRows # <<>>
          /\ \A id \in Range(EtlRows) :
               id \in Staged' /\ ~staging_identitas'[id]
          /\ last_processed_id' \in Range(EtlRows)
          /\ \A id \in Range(EtlRows) : LexLeq(id, last_processed_id')]_vars
  /\ [][LoadsBatch =>
          /\ LexLess(etl_last_id, last_processed_id')
          /\ FetchedFromSavedCursor =>
               LexLess(last_processed_id, last_processed_id')]_vars
  /\ [][ExtractInsertFail =>
          /\ last_processed_id' = last_processed_id
          /\ FetchedFromSavedCursor =>
               FetchRows(identitas, last_processed_id', etl_batch_size)
                 = EtlRows]_vars
  /\ (etl_pc = "loop") ~> (etl_pc = "idle")

\* A resumed extract that started from a saved cursor has loaded a batch and
\* moved the cursor forward.
C34_ResumedAndLoaded ==
  /\ etl_pc = "loop"
  /\ etl_start_id # Zero
  /\ etl_total > 0
  /\ LexLess(etl_start_id, last_processed_id)
  /\ last_processed_id = etl_last_id
  /\ last_processed_id \in Staged

\* The k-th ancestor of n along the parent pointers.
RECURSIVE Ancestor(_, _, _)
Ancestor(u, n, k) == IF k = 0 THEN n ELSE Ancestor(u, u.parent[n], k - 1)

\* The root the parent pointers lead to from n, in a forest.
RootOf(u, n) == Ancestor(u, n, Cardinality(Present(u)))

\* The nodes on the path from n to its root.
PathOf(u, n) == {Ancestor(u, n, k) : k \in 0..Cardinality(Present(u))}

\* C35: a find call on an id that is present changes no rank and no key,
\* leaves the root of every node (hence the partition into sets) as it was,
\* rewrites parent pointers only of nodes on the path from the id to its
\* root, and returns that root.
C35_FindKeepsRootsAndRanks ==
  [][(ufc_ncalls' # ufc_ncalls /\ ufc_last'.op = "find"
        /\ ufc_last'.a \in Present(uf)) =>
       /\ Present(uf') = Present(uf)
       /\ uf'.rank = uf.rank
       /\ \A n \in Present(uf) : RootOf(uf', n) = RootOf(uf, n)
       /\ \A n \in Present(uf) :
            uf'.parent[n] # uf.parent[n] => n \in PathOf(uf, ufc_last'.a)
       /\ ufc_last'.ret = RootOf(uf, ufc_last'.a)]_vars

\* A find call has compressed a path: four ids in one set whose root has
\* rank 2, all pointing at the root, after a find on another id than the
\* root.
C35_PathCompressed ==
  /\ uf_pc = "calls"
  /\ ufc_last.op = "find"
  /\ Cardinality(Present(uf)) = 4
  /\ \E r \in Present(uf) :
       /\ uf.rank[r] = 2
       /\ ufc_last.a # r
       /\ \A n \in Present(uf) : uf.parent[n] = r

\* C36: the parent pointers form a forest (from every node they lead to a
\* self-loop within as many steps as there are nodes, so find's recursion
\* ends), parent and rank have the same keys, every parent is a key, and the
\* rank of a node that is no root is smaller than the rank of its parent.
C36_ForestWithRanks ==
  uf_pc = "calls" =>
    /\ DOMAIN uf.parent = DOMAIN uf.rank
    /\ \A n \in Present(uf) :
         /\ uf.parent[n] \in Present(uf)
         /\ uf.parent[n] # n => uf.rank[n] < uf.rank[uf.parent[n]]
         /\ \E k \in 0..(Cardinality(Present(uf)) - 1) :
              LET a == Ancestor(uf, n, k) IN uf.parent[a] = a

\* A tree of depth two: a node whose parent is not a root.
C36_DeepTree ==
  /\ uf_pc = "calls"
  /\ \E n \in Present(uf) :
       /\ uf.parent[n] # n
       /\ uf.parent[uf.parent[n]] # uf.parent[n]
       /\ uf.rank[n] = 0 /\ uf.rank[uf.parent[n]] = 1
       /\ uf.rank[uf.parent[uf.parent[n]]] = 2

\* C37: for every batch and its edge table, every edge row has a batch
\* record as new_id, every component built by the resolution holds a batch
\* record (none is skipped), and every node of all_nodes lies in a component
\* whose batch records are assigned a canonical CIF.
C37_EveryComponentHasBatchRecord ==
  pc = "merge" =>
    /\ \A e \in batch_pairs : e[1] \in NewIds
    /\ \A c \in hist.components : c \cap NewIds # {}
    /\ ResolvedComponents(hist.components, NewIds) = hist.components
    /\ \A n \in AllNodes(NewIds, PairsOf(batch_pairs)) :
         \E c \in hist.components :
           /\ n \in c
           /\ \E a \in assignments_df :
                a.NOMOR_INDUK \in c /\ a.CIF_NUMBER # <<>>

\* A batch of two records resolved into two components, one of them with a
\* candidate outside the batch.
C37_ComponentWithCandidate ==
  /\ pc = "merge"
  /\ Cardinality(NewIds) = 2
  /\ Cardinality(hist.components) = 2
  /\ \E c \in hist.components : c \ NewIds # {}

====
